---- MODULE Spec2Model ----
(***************************************************************************)
(* The notebook interactive-vega-altair-solution.py as a state machine.    *)
(*                                                                         *)
(* The state is the kernel session: which cell runs next, the value of     *)
(* every widget control, and, per @interact binder, the keyword arguments  *)
(* of its latest callback call and the contents of its output area.  The   *)
(* cells run top to bottom; between cells and after the last one the user  *)
(* changes control values.  Each cell and each delivered value change is   *)
(* one action: the kernel handles one message at a time and the handler    *)
(* (the binder's update, the callback it calls, the capture of what the    *)
(* callback prints or returns) runs inside it.                             *)
(*                                                                         *)
(* @interact and Widget.observe are calls into ipywidgets: what they do    *)
(* at the call sites of the notebook (call once on bind, call again on a   *)
(* value change with the values of all controls, clear the output area     *)
(* before capturing; call the observer on a change only, append to an      *)
(* Output widget) is the library's documented behaviour.                   *)
(***************************************************************************)
EXTENDS Integers, Sequences, FiniteSets, TLC

\* ------------------------------------------------------------------ bounds

\* Value changes the user makes in one session, over all controls.
MaxEvents == 2

\* Rows of the bird strikes table.
MaxRows == 2

\* Texts the user types besides a text box's initial value.
TextInputs == {"", "Hi"}

\* Values of the cost column: below zero, zero, a multiple of 1000 and just
\* above one.
CostValues == {-1, 0, 1000, 2001}

\* list(birdStrikesDF.columns), cut to the two columns the notebook names
\* and one more.
Columns == <<"When__Phase_of_flight", "Cost__Total_$", "Wildlife__Size">>

\* U+2013, the en dash of the subtitle, in ASCII.
EnDash == "~"

VARIABLES
    pc,               \* the cell that runs next
    widgets,          \* binder -> [control -> current value]
    kwargs,           \* binder -> keyword arguments of its latest callback call
    calls,            \* binder -> callback calls so far
    out,              \* binder -> items in its output area
    changes,          \* binder -> value changes delivered to its controls
    nEvents,          \* value changes delivered in the session
    textWidget,       \* value of the observed text box (<<>> before its cell)
    output,           \* items in the Output widget of the observe cell
    observed,         \* the value changes the observer was called with
    birdStrikesDF,    \* the cost column of the table (<<>> before its cell)
    costRangeInData   \* <<lo, hi>> in thousands (<<>> before its cell)

vars == <<pc, widgets, kwargs, calls, out, changes, nEvents, textWidget,
          output, observed, birdStrikesDF, costRangeInData>>

\* ------------------------------------------------------- python built-ins

Digits == <<"0", "1", "2", "3", "4", "5", "6", "7", "8", "9">>

RECURSIVE StrNat(_)
StrNat(n) ==
    IF n < 10 THEN Digits[n + 1]
    ELSE StrNat(n \div 10) \o Digits[(n % 10) + 1]

\* str(n) of an int.
Str(n) == IF n < 0 THEN "-" \o StrNat(-n) ELSE StrNat(n)

\* sep.join(parts)
RECURSIVE Join(_, _)
Join(sep, parts) ==
    IF Len(parts) = 0 THEN ""
    ELSE IF Len(parts) = 1 THEN parts[1]
    ELSE parts[1] \o sep \o Join(sep, Tail(parts))

\* math.floor(n / 1000) and math.ceil(n / 1000) of an int n.
FloorThousands(n) == n \div 1000

CeilThousands(n) == -((-n) \div 1000)

RECURSIVE SeqMin(_)
SeqMin(s) ==
    IF Len(s) = 1 THEN s[1]
    ELSE LET m == SeqMin(Tail(s)) IN IF s[1] < m THEN s[1] ELSE m

RECURSIVE SeqMax(_)
SeqMax(s) ==
    IF Len(s) = 1 THEN s[1]
    ELSE LET m == SeqMax(Tail(s)) IN IF s[1] > m THEN s[1] ELSE m

Range(s) == {s[i] : i \in DOMAIN s}

\* ------------------------------------------------------------ the callbacks

\* What a callback call produces: the lines it prints and what it returns
\* (<<>> for None).

print10X(str1) ==
    [printed |-> [i \in 1..10 |-> Join(" ", <<str1, Str(i - 1)>>)],
     result  |-> <<>>]

print10XPair(str1, str2) ==
    [printed |-> [i \in 1..10 |-> Join(" ", <<str1, str2, Str(i - 1)>>)],
     result  |-> <<>>]

times10(x) ==
    [printed |-> <<Str(x * 10)>>,
     result  |-> <<>>]

costCol == "Cost__Total_$"

\* The chart of the cell before the dropdown: x fixed to one column.
barChartFixed(xcol) ==
    [printed |-> <<>>,
     result  |-> << [data  |-> birdStrikesDF,
                     title |-> "Bird Strikes Dataset",
                     mark  |-> "bar",
                     x     |-> "When__Phase_of_flight",
                     y     |-> "count()"] >>]

barChart(xcol) ==
    [printed |-> <<>>,
     result  |-> << [data  |-> birdStrikesDF,
                     title |-> "Bird Strikes Dataset",
                     mark  |-> "bar",
                     x     |-> xcol,
                     y     |-> "count()"] >>]

\* A filter on the slider's values as they are, not in thousands.
barChartRangesUnscaled(xcol, costRange) ==
    [printed |-> <<>>,
     result  |-> << [data     |-> birdStrikesDF,
                     title    |-> "Bird Strikes Dataset",
                     subtitle |-> "With costs $" \o Str(costRange[1]) \o EnDash
                                  \o Str(costRange[2]) \o "k",
                     filter   |-> [column |-> costCol,
                                   ge     |-> costRange[1],
                                   le     |-> costRange[2]],
                     mark     |-> "bar",
                     x        |-> xcol,
                     y        |-> "count()"] >>]

barChartRanges(xcol, costRange) ==
    [printed |-> <<>>,
     result  |-> << [data     |-> birdStrikesDF,
                     title    |-> "Bird Strikes Dataset",
                     subtitle |-> "With costs $" \o Str(costRange[1]) \o EnDash
                                  \o Str(costRange[2]) \o "k",
                     filter   |-> [column |-> costCol,
                                   ge     |-> costRange[1] * 1000,
                                   le     |-> costRange[2] * 1000],
                     mark     |-> "bar",
                     x        |-> xcol,
                     y        |-> "count()"] >>]

\* The rows of its table a chart counts: those its filter keeps.
ChartRows(chart) ==
    IF "filter" \in DOMAIN chart
    THEN {i \in DOMAIN chart.data :
            /\ chart.data[i] >= chart.filter.ge
            /\ chart.data[i] <= chart.filter.le}
    ELSE DOMAIN chart.data

Binders == {"print10X", "print10XPair", "times10", "barChart", "barChartRanges"}

\* The binder's function applied to the keyword arguments kw.
Callback(b, kw) ==
    CASE b = "print10X"       -> print10X(kw.str1)
      [] b = "print10XPair"   -> print10XPair(kw.str1, kw.str2)
      [] b = "times10"        -> times10(kw.x)
      [] b = "barChart"       -> barChart(kw.xcol)
      [] b = "barChartRanges" -> barChartRanges(kw.xcol, kw.costRange)

\* The initial value of each control, as its constructor gives it.
InitialValues(b) ==
    CASE b = "print10X"       -> [str1 |-> "Hello"]
      [] b = "print10XPair"   -> [str1 |-> "Hello", str2 |-> "World!"]
      [] b = "times10"        -> [x |-> 7]
      [] b = "barChart"       -> [xcol |-> "When__Phase_of_flight"]
      [] b = "barChartRanges" -> [xcol |-> "When__Phase_of_flight",
                                  costRange |-> costRangeInData]

\* Domains one step too wide: a slider up to 11, a range with lo above hi.
ControlDomainWide(b, ctl) ==
    CASE ctl = "str1"      -> TextInputs \cup {"Hello"}
      [] ctl = "str2"      -> TextInputs \cup {"World!"}
      [] ctl = "x"         -> 0..11
      [] ctl = "xcol"      -> Range(Columns)
      [] ctl = "costRange" ->
            (costRangeInData[1]..costRangeInData[2])
                \X (costRangeInData[1]..costRangeInData[2])

\* The values a control can take.
ControlDomain(b, ctl) ==
    CASE ctl = "str1"      -> TextInputs \cup {"Hello"}
      [] ctl = "str2"      -> TextInputs \cup {"World!"}
      [] ctl = "x"         -> 0..10
      [] ctl = "xcol"      -> Range(Columns)
      [] ctl = "costRange" ->
            {r \in (costRangeInData[1]..costRangeInData[2])
                    \X (costRangeInData[1]..costRangeInData[2]) : r[1] <= r[2]}

\* ------------------------------------------------------------- the binder

\* What the output area holds after call number n produced r: the printed
\* lines as stream items, then the returned value, if any, as a display item.
Captured(r, n) ==
    [i \in 1..Len(r.printed) |->
        [call |-> n, type |-> "stream", text |-> r.printed[i]]]
    \o
    [i \in 1..Len(r.result) |->
        [call |-> n, type |-> "display_data", data |-> r.result[i]]]

\* An output area that is not cleared between calls.
DisplayAppended(old, r, n) == old \o Captured(r, n)

\* The output area after one more call: cleared, then the call's capture.
Display(old, r, n) == Captured(r, n)

\* Keyword arguments that keep, for the controls that did not change, the
\* values the binder was built with.
StaleValues(b, w) ==
    [c \in DOMAIN w |->
        IF b \in DOMAIN widgets /\ w[c] = widgets[b][c]
        THEN InitialValues(b)[c] ELSE w[c]]

\* The keyword arguments of a call of binder b whose controls hold w: the
\* current value of every control.
CurrentValues(b, w) == w

\* interactive.update: call the callback with the current values of all the
\* controls of binder b (w), and show what it produced in place of the old
\* output.
Update(b, w) ==
    LET kw == CurrentValues(b, w)
        n  == (IF b \in DOMAIN calls THEN calls[b] ELSE 0) + 1
        old == IF b \in DOMAIN out THEN out[b] ELSE <<>>
    IN  /\ kwargs' = (b :> kw) @@ kwargs
        /\ calls'  = (b :> n) @@ calls
        /\ out'    = (b :> Display(old, Callback(b, kw), n)) @@ out

\* A binder that waits for the first change before it calls (interact_manual).
BindWithoutCall(b) ==
    /\ widgets' = (b :> InitialValues(b)) @@ widgets
    /\ changes' = (b :> 0) @@ changes
    /\ kwargs' = (b :> InitialValues(b)) @@ kwargs
    /\ calls' = (b :> 0) @@ calls
    /\ out' = (b :> <<>>) @@ out

\* @interact(...) def b: build the controls with their initial values,
\* register update on each, and run update once.
Bind(b) ==
    /\ widgets' = (b :> InitialValues(b)) @@ widgets
    /\ changes' = (b :> 0) @@ changes
    /\ Update(b, InitialValues(b))

\* The user sets control ctl of binder b to v, another value of its domain.
Change(b, ctl, v) ==
    /\ b \in DOMAIN widgets
    /\ nEvents < MaxEvents
    /\ v # widgets[b][ctl]
    /\ widgets' = [widgets EXCEPT ![b][ctl] = v]
    /\ changes' = [changes EXCEPT ![b] = @ + 1]
    /\ nEvents' = nEvents + 1
    /\ Update(b, [widgets[b] EXCEPT ![ctl] = v])
    /\ UNCHANGED <<pc, textWidget, output, observed, birdStrikesDF,
                   costRangeInData>>

ControlChange ==
    \E b \in DOMAIN widgets :
        \E ctl \in DOMAIN widgets[b] :
            \E v \in ControlDomain(b, ctl) : Change(b, ctl, v)

\* --------------------------------------------------------- the observe cell

\* print(change): the repr of the change record.
ChangeRepr(change) ==
    "{'name': 'value', 'old': '" \o change.old \o "', 'new': '" \o change.new
    \o "', 'owner': Text(value='" \o change.new
    \o "', description='Input string:'), 'type': 'change'}"

\* The second print10X, the observer: the lines it prints for a change.
print10XObserver(change) ==
    LET inputStr == change.new
    IN  <<ChangeRepr(change)>>
        \o [i \in 1..10 |-> Join(" ", <<inputStr, Str(i - 1)>>)]

\* An Output widget cleared before each capture.
OutputReplace(old, lines) == lines

\* The Output widget after the observer printed lines inside `with output`.
OutputAppend(old, lines) == old \o lines

\* The Output widget when the observer is registered.
OutputAtObserve == <<>>

\* The user sets the observed text box to v, another text.
TextWidgetChange ==
    /\ pc > 2
    /\ nEvents < MaxEvents
    /\ \E v \in TextInputs \cup {"Hello World!"} :
          /\ v # textWidget[1]
          /\ LET change == [name |-> "value", old |-> textWidget[1],
                            new |-> v, type |-> "change"]
             IN  /\ textWidget' = <<v>>
                 /\ output' = OutputAppend(output, print10XObserver(change))
                 /\ observed' = Append(observed, change)
    /\ nEvents' = nEvents + 1
    /\ UNCHANGED <<pc, widgets, kwargs, calls, out, changes, birdStrikesDF,
                   costRangeInData>>

\* ------------------------------------------------------------------ cells

CellPrint10X ==
    /\ pc = 1
    /\ pc' = 2
    /\ Bind("print10X")
    /\ UNCHANGED <<nEvents, textWidget, output, observed, birdStrikesDF,
                   costRangeInData>>

CellObserve ==
    /\ pc = 2
    /\ pc' = 3
    /\ textWidget' = <<"Hello World!">>
    /\ output' = OutputAtObserve
    /\ UNCHANGED <<widgets, kwargs, calls, out, changes, nEvents, observed,
                   birdStrikesDF, costRangeInData>>

CellPrint10XPair ==
    /\ pc = 3
    /\ pc' = 4
    /\ Bind("print10XPair")
    /\ UNCHANGED <<nEvents, textWidget, output, observed, birdStrikesDF,
                   costRangeInData>>

CellTimes10 ==
    /\ pc = 4
    /\ pc' = 5
    /\ Bind("times10")
    /\ UNCHANGED <<nEvents, textWidget, output, observed, birdStrikesDF,
                   costRangeInData>>

\* The tables data.birdstrikes() may return: their cost columns.
Tables ==
    UNION {[1..n -> CostValues] : n \in 1..MaxRows}

CellBirdStrikes ==
    /\ pc = 5
    /\ pc' = 6
    /\ birdStrikesDF' \in Tables
    /\ UNCHANGED <<widgets, kwargs, calls, out, changes, nEvents, textWidget,
                   output, observed, costRangeInData>>

CellBarChart ==
    /\ pc = 6
    /\ pc' = 7
    /\ Bind("barChart")
    /\ UNCHANGED <<nEvents, textWidget, output, observed, birdStrikesDF,
                   costRangeInData>>

\* Both ends rounded down.
CostRangeFloored(df) ==
    <<FloorThousands(SeqMin(df)), FloorThousands(SeqMax(df))>>

\* costRangeInData = [floor(min / 1000), ceil(max / 1000)]
CostRange(df) ==
    <<FloorThousands(SeqMin(df)), CeilThousands(SeqMax(df))>>

CellCostRange ==
    /\ pc = 7
    /\ pc' = 8
    /\ costRangeInData' = CostRange(birdStrikesDF)
    /\ UNCHANGED <<widgets, kwargs, calls, out, changes, nEvents, textWidget,
                   output, observed, birdStrikesDF>>

CellBarChartRanges ==
    /\ pc = 8
    /\ pc' = 9
    /\ Bind("barChartRanges")
    /\ UNCHANGED <<nEvents, textWidget, output, observed, birdStrikesDF,
                   costRangeInData>>

\* ------------------------------------------------------------- the session

Init ==
    /\ pc = 1
    /\ widgets = <<>>
    /\ kwargs = <<>>
    /\ calls = <<>>
    /\ out = <<>>
    /\ changes = <<>>
    /\ nEvents = 0
    /\ textWidget = <<>>
    /\ output = <<>>
    /\ observed = <<>>
    /\ birdStrikesDF = <<>>
    /\ costRangeInData = <<>>

Next ==
    \/ CellPrint10X
    \/ CellObserve
    \/ CellPrint10XPair
    \/ CellTimes10
    \/ CellBirdStrikes
    \/ CellBarChart
    \/ CellCostRange
    \/ CellBarChartRanges
    \/ ControlChange
    \/ TextWidgetChange

Spec == Init /\ [][Next]_vars

\* ----------------------------------------------------------------- claims

\* The chart a chart binder shows: the data of the last item of its output.
Shown(b) == out[b][Len(out[b])].data

\* C1: as long as no value change was delivered to a binder's controls, its
\* callback has been called exactly once, with every argument equal to the
\* initial value its control declares ('Hello', 'World!', 7,
\* 'When__Phase_of_flight', costRangeInData), and the output area holds what
\* that call printed or returned.
BindCallsOnceWithInitialValues ==
    \A b \in DOMAIN widgets :
        changes[b] = 0 =>
            LET declared ==
                    CASE b = "print10X" -> [str1 |-> "Hello"]
                      [] b = "print10XPair" ->
                            [str1 |-> "Hello", str2 |-> "World!"]
                      [] b = "times10" -> [x |-> 7]
                      [] b = "barChart" -> [xcol |-> "When__Phase_of_flight"]
                      [] b = "barChartRanges" ->
                            [xcol |-> "When__Phase_of_flight",
                             costRange |-> <<costRangeInData[1],
                                             costRangeInData[2]>>]
            IN  /\ calls[b] = 1
                /\ kwargs[b] = declared
                /\ out[b] = Captured(Callback(b, declared), 1)

\* C1 witness: all five binders are bound and none has seen a change yet.
AllBoundBeforeAnyChange ==
    /\ DOMAIN widgets = Binders
    /\ \A b \in Binders : changes[b] = 0 /\ calls[b] = 1 /\ out[b] # <<>>

\* C2: a step that changes a control of print10XPair or barChartRanges
\* changes exactly one control, adds exactly one callback call, and that
\* call's arguments are the new value of the changed control together with
\* the values the other controls had before the step; no other step calls
\* the callback of a bound binder.
ChangeCallsWithAllCurrentValues ==
    [][\A b \in DOMAIN widgets \cap {"print10XPair", "barChartRanges"} :
          IF widgets'[b] # widgets[b]
          THEN /\ calls'[b] = calls[b] + 1
               /\ kwargs'[b] = widgets'[b]
               /\ \E ctl \in DOMAIN widgets[b] :
                     /\ kwargs'[b][ctl] # widgets[b][ctl]
                     /\ \A c \in DOMAIN widgets[b] \ {ctl} :
                           kwargs'[b][c] = widgets[b][c]
          ELSE calls'[b] = calls[b] /\ kwargs'[b] = kwargs[b]]_vars

\* C2 witness: both text boxes of print10XPair were changed, one after the
\* other, and the latest call got both new values.
PairCalledAfterBothChanged ==
    /\ "print10XPair" \in DOMAIN widgets
    /\ changes["print10XPair"] = 2
    /\ calls["print10XPair"] = 3
    /\ kwargs["print10XPair"].str1 # "Hello"
    /\ kwargs["print10XPair"].str2 # "World!"

\* C3: the output area of every bound binder holds the output of exactly one
\* call, the latest: every item carries the number of the latest call, the
\* items are what the callback produces for the latest arguments, and a
\* chart binder shows exactly one chart.
OneOutputOfLatestCall ==
    \A b \in DOMAIN widgets :
        /\ out[b] # <<>>
        /\ \A i \in DOMAIN out[b] : out[b][i].call = calls[b]
        /\ out[b] = Captured(Callback(b, kwargs[b]), calls[b])
        /\ b \in {"barChart", "barChartRanges"} =>
              Len(out[b]) = 1 /\ out[b][1].type = "display_data"

\* C3 witness: the dropdown of barChart was changed and one chart is shown,
\* the one of the second call.
BarChartRedrawn ==
    /\ "barChart" \in DOMAIN widgets
    /\ changes["barChart"] >= 1
    /\ Len(out["barChart"]) = 1
    /\ out["barChart"][1].call = 2
    /\ Shown("barChart").x # "When__Phase_of_flight"

\* C6: every value a callback was called with is within the domain its
\* control declares: x is an integer from 0 to 10, costRange is a pair
\* (lo, hi) with costRangeInData[0] <= lo <= hi <= costRangeInData[1], and
\* xcol is one of the columns of the table.
ArgumentsWithinDeclaredDomain ==
    \A b \in DOMAIN kwargs :
        LET kw == kwargs[b]
        IN  /\ "x" \in DOMAIN kw =>
                  kw.x \in Int /\ 0 <= kw.x /\ kw.x <= 10
            /\ "costRange" \in DOMAIN kw =>
                  /\ Len(kw.costRange) = 2
                  /\ costRangeInData[1] <= kw.costRange[1]
                  /\ kw.costRange[1] <= kw.costRange[2]
                  /\ kw.costRange[2] <= costRangeInData[2]
            /\ "xcol" \in DOMAIN kw =>
                  \E i \in DOMAIN Columns : kw.xcol = Columns[i]

\* C6 witness: after user changes, times10 was called with the slider at its
\* upper end and barChartRanges with a range narrowed to a single value.
CalledAtDomainEdges ==
    /\ "barChartRanges" \in DOMAIN widgets
    /\ changes["times10"] = 1
    /\ kwargs["times10"].x = 10
    /\ changes["barChartRanges"] = 1
    /\ kwargs["barChartRanges"].costRange[1]
         = kwargs["barChartRanges"].costRange[2]
    /\ costRangeInData[1] < costRangeInData[2]

\* C7: the chart a chart binder shows has the column selected in its
\* dropdown as x, 'count()' as y and the bird strikes table as data; and for
\* every option of the dropdown (and every range of the slider) the chart
\* barChart or barChartRanges returns has that option as x.
ChartXIsSelectedColumn ==
    /\ \A b \in DOMAIN widgets \cap {"barChart", "barChartRanges"} :
          /\ Shown(b).x = widgets[b].xcol
          /\ Shown(b).y = "count()"
          /\ Shown(b).data = birdStrikesDF
    /\ pc > 5 =>
          \A i \in DOMAIN Columns :
              /\ barChart(Columns[i]).result[1].x = Columns[i]
              /\ barChart(Columns[i]).result[1].y = "count()"
    /\ pc > 7 =>
          \A i \in DOMAIN Columns :
              \A r \in ControlDomain("barChartRanges", "costRange") :
                  /\ barChartRanges(Columns[i], r).result[1].x = Columns[i]
                  /\ barChartRanges(Columns[i], r).result[1].y = "count()"

\* C7 witness: both dropdowns were moved away from the initial column, to
\* different columns, and both charts were redrawn.
BothDropdownsMoved ==
    /\ "barChartRanges" \in DOMAIN widgets
    /\ changes["barChart"] = 1
    /\ changes["barChartRanges"] = 1
    /\ widgets["barChart"].xcol = "Cost__Total_$"
    /\ widgets["barChartRanges"].xcol = "Wildlife__Size"

\* C8: the chart barChartRanges shows for costRange = (lo, hi) counts a row
\* exactly when lo * 1000 <= cost <= hi * 1000, on the cost column, and its
\* subtitle is 'With costs $' lo '-' hi 'k' for the same lo and hi, a
\* subtitle no other range of the slider gives.
RangeFilterMatchesSubtitle ==
    "barChartRanges" \in DOMAIN widgets =>
        LET lo == widgets["barChartRanges"].costRange[1]
            hi == widgets["barChartRanges"].costRange[2]
            c  == Shown("barChartRanges")
        IN  /\ c.filter.column = "Cost__Total_$"
            /\ ChartRows(c)
                 = {i \in DOMAIN birdStrikesDF :
                        /\ lo * 1000 <= birdStrikesDF[i]
                        /\ birdStrikesDF[i] <= hi * 1000}
            /\ c.subtitle
                 = "With costs $" \o Str(lo) \o EnDash \o Str(hi) \o "k"
            /\ \A r \in ControlDomain("barChartRanges", "costRange") :
                  r # <<lo, hi>> =>
                      barChartRanges("x", r).result[1].subtitle # c.subtitle

\* C8 witness: the range was narrowed so that one row lies exactly on the
\* upper bound and is counted, and another lies above it and is not.
RowOnBoundKeptRowAboveDropped ==
    /\ "barChartRanges" \in DOMAIN widgets
    /\ changes["barChartRanges"] >= 1
    /\ \E i \in DOMAIN birdStrikesDF :
          /\ birdStrikesDF[i] = widgets["barChartRanges"].costRange[2] * 1000
          /\ i \in ChartRows(Shown("barChartRanges"))
    /\ \E j \in DOMAIN birdStrikesDF :
          /\ birdStrikesDF[j] > widgets["barChartRanges"].costRange[2] * 1000
          /\ j \notin ChartRows(Shown("barChartRanges"))

\* C9: once costRangeInData is computed, every row's cost lies between
\* costRangeInData[0] * 1000 and costRangeInData[1] * 1000; the first chart
\* of barChartRanges (before any change of its controls) counts every row,
\* the same rows as the chart of barChart; and no range the slider reaches is
\* wider than costRangeInData.
InitialRangeExcludesNoRow ==
    /\ costRangeInData # <<>> =>
          \A i \in DOMAIN birdStrikesDF :
              /\ costRangeInData[1] * 1000 <= birdStrikesDF[i]
              /\ birdStrikesDF[i] <= costRangeInData[2] * 1000
    /\ "barChartRanges" \in DOMAIN widgets =>
          /\ changes["barChartRanges"] = 0 =>
                /\ ChartRows(Shown("barChartRanges")) = DOMAIN birdStrikesDF
                /\ ChartRows(Shown("barChartRanges"))
                     = ChartRows(Shown("barChart"))
          /\ costRangeInData[1] <= widgets["barChartRanges"].costRange[1]
          /\ widgets["barChartRanges"].costRange[2] <= costRangeInData[2]

\* C9 witness: the first chart of barChartRanges over a table whose lowest
\* and highest cost are both no multiple of 1000.
FirstRangeChartOverUnevenCosts ==
    /\ "barChartRanges" \in DOMAIN widgets
    /\ changes["barChartRanges"] = 0
    /\ SeqMin(birdStrikesDF) = -1
    /\ SeqMax(birdStrikesDF) = 2001
    /\ costRangeInData = <<-1, 3>>

====
